---- MODULE Spec2Model ----
(***************************************************************************)
(* The RAG service of azure-fastapi-rag-app: document ingestion            *)
(* (upload_document / RAGService.process_document) into the Record Store   *)
(* (the documents table), the Backup Store (<id>.json files) and the       *)
(* Vector Index (Chroma), and retrieval (query_documents /                 *)
(* RAGService.query) with answer synthesis (_generate_answer); lookup and  *)
(* deletion (get_document, delete_document); start-up of the module; the   *)
(* authorization of uploads (check_permission and the casbin policy).      *)
(***************************************************************************)
EXTENDS Integers, Sequences, FiniteSets, TLC

VARIABLES
    process,        \* the service process: "importing", "running" or "failed"
    removed,        \* history: ids whose row a delete_document call removed
    users,          \* users service: rows of its users table
    vector_store,   \* module global: "None" (degraded) or "Chroma";
                    \* "Unbound" until the module body has run
    llm,            \* module global: "None" or "ChatGroq"; "Unbound" likewise
    documents,      \* Record Store: rows of the documents table
    files,          \* Backup Store: the *.json files of storage_dir
    chroma,         \* Vector Index: the chunks of the persist directory that
                    \* the Chroma object holds (none without the object)
    clock,          \* wall clock read by func.now() and datetime.now()
    tmpfiles,       \* temporary files that exist on disk
    up,             \* up[t]: the upload request t (position and locals)
    resp            \* response of the request being answered, or NoResponse

vars == <<process, removed, users, vector_store, llm, documents, files, chroma, clock,
          tmpfiles, up, resp>>

-----------------------------------------------------------------------------
(* Bounds of the model *)

MaxUploads == 1     \* upload requests made after start-up
MaxTopK == 2        \* largest top_k a query asks for
MaxSkip == 1        \* largest skip a listing asks for
MaxLimit == 2       \* largest limit a listing asks for

(* Program constants *)

ExcerptLen == 500   \* context[:500] in _generate_answer

-----------------------------------------------------------------------------
(* Text helpers: Python str operations on TLA+ strings *)

Min(a, b) == IF a < b THEN a ELSE b

RECURSIVE Repeat(_, _)
Repeat(s, n) == IF n = 0 THEN "" ELSE s \o Repeat(s, n - 1)

\* s[:n]
Slice(s, n) == IF Len(s) = 0 THEN "" ELSE SubSeq(s, 1, Min(n, Len(s)))

IsSpace(c) == c \in {" ", "\n", "\t"}

RECURSIVE LStrip(_)
LStrip(s) ==
    IF Len(s) = 0 THEN ""
    ELSE IF IsSpace(SubSeq(s, 1, 1))
         THEN (IF Len(s) = 1 THEN "" ELSE LStrip(SubSeq(s, 2, Len(s))))
         ELSE s

RECURSIVE RStrip(_)
RStrip(s) ==
    IF Len(s) = 0 THEN ""
    ELSE IF IsSpace(SubSeq(s, Len(s), Len(s)))
         THEN (IF Len(s) = 1 THEN "" ELSE RStrip(SubSeq(s, 1, Len(s) - 1)))
         ELSE s

\* str.strip()
Strip(s) == RStrip(LStrip(s))

Upper == "ABCDEFGHIJKLMNOPQRSTUVWXYZ"
LowerLetters == "abcdefghijklmnopqrstuvwxyz"

LowerChar(c) ==
    IF \E i \in 1..Len(Upper) : SubSeq(Upper, i, i) = c
    THEN LET i == CHOOSE j \in 1..Len(Upper) : SubSeq(Upper, j, j) = c
         IN  SubSeq(LowerLetters, i, i)
    ELSE c

RECURSIVE Lower(_)
\* str.lower()
Lower(s) ==
    IF Len(s) = 0 THEN ""
    ELSE LowerChar(SubSeq(s, 1, 1))
         \o (IF Len(s) = 1 THEN "" ELSE Lower(SubSeq(s, 2, Len(s))))

\* sub in s
Contains(s, sub) ==
    \E i \in 1..(Len(s) - Len(sub) + 1) : SubSeq(s, i, i + Len(sub) - 1) = sub

RECURSIVE Join(_, _)
\* sep.join(parts)
Join(sep, parts) ==
    IF Len(parts) = 0 THEN ""
    ELSE IF Len(parts) = 1 THEN parts[1]
    ELSE parts[1] \o sep \o Join(sep, Tail(parts))

\* s[i-1:] for i from 1 (the text from the i-th character on)
Suffix(s, i) == IF i > Len(s) THEN "" ELSE SubSeq(s, i, Len(s))

\* s[:-1]
DropLast(s) == IF Len(s) <= 1 THEN "" ELSE SubSeq(s, 1, Len(s) - 1)

\* s.startswith(pre), pre not empty
StartsWith(s, pre) == Len(pre) <= Len(s) /\ SubSeq(s, 1, Len(pre)) = pre

\* s.endswith(suf), suf not empty
EndsWith(s, suf) ==
    Len(suf) <= Len(s) /\ SubSeq(s, Len(s) - Len(suf) + 1, Len(s)) = suf

RECURSIVE Replace(_, _, _)
\* s.replace(old, new): every occurrence, left to right
Replace(s, old, new) ==
    IF Len(s) < Len(old) THEN s
    ELSE IF StartsWith(s, old)
         THEN new \o Replace(Suffix(s, Len(old) + 1), old, new)
         ELSE SubSeq(s, 1, 1) \o Replace(Suffix(s, 2), old, new)

RECURSIVE Count(_, _)
\* s.count(sub)
Count(s, sub) ==
    IF Len(s) < Len(sub) THEN 0
    ELSE IF StartsWith(s, sub) THEN 1 + Count(Suffix(s, Len(sub) + 1), sub)
    ELSE Count(Suffix(s, 2), sub)

RECURSIVE Split(_, _)
\* s.split(sep) for a separator of one character
Split(s, sep) ==
    IF ~Contains(s, sep) THEN <<s>>
    ELSE LET i == CHOOSE j \in 1..Len(s) :
                    /\ SubSeq(s, j, j) = sep
                    /\ \A k \in 1..(j - 1) : SubSeq(s, k, k) # sep
         IN  <<IF i = 1 THEN "" ELSE SubSeq(s, 1, i - 1)>>
             \o Split(Suffix(s, i + 1), sep)

UpperChar(c) ==
    IF \E i \in 1..Len(LowerLetters) : SubSeq(LowerLetters, i, i) = c
    THEN LET i == CHOOSE j \in 1..Len(LowerLetters) : SubSeq(LowerLetters, j, j) = c
         IN  SubSeq(Upper, i, i)
    ELSE c

RECURSIVE ToUpper(_)
\* str.upper()
ToUpper(s) ==
    IF Len(s) = 0 THEN ""
    ELSE UpperChar(SubSeq(s, 1, 1)) \o ToUpper(Suffix(s, 2))

\* JSON values as the token payload and doc_metadata carry them: a string, or
\* null (Python None)
JStr(text) == [t |-> "str", v |-> text]
JNull == [t |-> "null"]

\* str(value) of Python
PyStr(value) == IF value = JNull THEN "None" ELSE value.v

\* dict.get(key, default)
DictGet(d, key, default) == IF key \in DOMAIN d THEN d[key] ELSE default

-----------------------------------------------------------------------------
(* Data *)

Tasks == 1..MaxUploads

\* str(uuid.uuid4()): a fresh id for every call
Uuid4(t) == "u" \o ToString(t)

\* tempfile.NamedTemporaryFile(delete=False, suffix=".txt").name
TempFilePath(doc_id) == "/tmp/tmp-" \o doc_id \o ".txt"

LongText == Repeat("0123456789", 60)

\* contents a client uploads
Contents == {"Refunds are processed within 5 days.", "Shipping takes two days."}

\* what the stores hold when the process starts (they persist across runs)
PreDoc1 == [doc_id |-> "d1", content |-> "Refunds policy, old edition.", created_at |-> 1,
            doc_metadata |-> [uploader_id |-> JStr("5")]]
PreDoc2 == [doc_id |-> "d2", content |-> "Warranty terms.", created_at |-> 1,
            doc_metadata |-> [uploader_id |-> JStr("6")]]
PreChunk1 == [page_content |-> "Refunds policy", metadata |-> [collection_name |-> "d1"]]
PreChunkStale == [page_content |-> LongText, metadata |-> [collection_name |-> "gone"]]
PreFile1 == [name |-> "d1", valid |-> TRUE, content |-> "Refunds policy, old edition.", created_at |-> 1]
PreFileStale == [name |-> "gone", valid |-> TRUE, content |-> "Deleted text.", created_at |-> 0]
PreFileBad == [name |-> "bad", valid |-> FALSE, content |-> "", created_at |-> 0]

\* the users table of the users service when the process starts
UsersTable ==
    {[id |-> 1, username |-> "root", role |-> "admin"],
     [id |-> 2, username |-> "alice", role |-> "user"]}

NoResponse == [kind |-> "none"]

\* an upload request: pc its position, role the caller's role as the
\* handler reads it, uploader_id the caller's id put in the metadata, raised
\* the call that raised out of it,
\* vec what the vector-indexing step logged, status the HTTP status returned
IdleUpload == [pc |-> "idle", role |-> "", uploader_id |-> JNull, doc_id |-> "",
               content |-> "", raised |-> "", vec |-> "", status |-> 0]

-----------------------------------------------------------------------------
(* Start-up: module initialisation of rag_service.py *)

\* The stores persist across runs: what a starting process may find in them.
\* A stale chunk or snapshot is one whose document is not in the table.
Persisted ==
    {[documents |-> {}, files |-> {}, chroma |-> {}],
     [documents |-> {}, files |-> {PreFileStale}, chroma |-> {PreChunk1, PreChunkStale}],
     [documents |-> {PreDoc1}, files |-> {PreFile1, PreFileStale, PreFileBad},
      chroma |-> {PreChunk1, PreChunkStale}],
     [documents |-> {PreDoc1, PreDoc2}, files |-> {PreFile1, PreFileStale},
      chroma |-> {PreChunkStale}]}

Init ==
    /\ process = "running"
    /\ removed = {}
    /\ users = UsersTable
    /\ vector_store \in {"None", "Chroma"}
    /\ llm \in {"None", "ChatGroq"}
    /\ \E p \in Persisted :
        /\ documents = p.documents
        /\ files = p.files
        /\ chroma = IF vector_store = "None" THEN {} ELSE p.chroma
    /\ clock = 1
    /\ tmpfiles = {}
    /\ up = [t \in Tasks |-> IdleUpload]
    /\ resp = NoResponse

\* the process before "import app.services.rag_service" has run
InitBoot ==
    /\ process = "importing"
    /\ removed = {}
    /\ users = UsersTable
    /\ vector_store = "Unbound"
    /\ llm = "Unbound"
    /\ \E p \in Persisted :
        /\ documents = p.documents
        /\ files = p.files
        /\ chroma = p.chroma
    /\ clock = 1
    /\ tmpfiles = {}
    /\ up = [t \in Tasks |-> IdleUpload]
    /\ resp = NoResponse

\* what the constructors called by the module body may do
EmbeddingsOutcomes == {"ok", "raises_ImportError", "raises_other"}
ChromaOutcomes == {"ok", "raises"}
GroqOutcomes == {"no_key", "ok", "raises"}

\* The module body of rag_service.py, run once when the application is
\* imported. HuggingFaceEmbeddings(...) is inside "except ImportError": any
\* other exception (the model cannot be loaded or fetched) leaves the module
\* body and the import of the application fails. Chroma(...) and
\* ChatGroq(...) are inside "except Exception".
Startup ==
    /\ process = "importing"
    /\ \E emb \in EmbeddingsOutcomes : \E store \in ChromaOutcomes :
       \E groq \in GroqOutcomes :
            IF emb = "raises_other"
            THEN /\ process' = "failed"
                 /\ UNCHANGED <<vector_store, llm, chroma>>
            ELSE /\ process' = "running"
                 /\ vector_store' = IF emb = "ok" /\ store = "ok"
                                    THEN "Chroma" ELSE "None"
                 /\ llm' = IF groq = "ok" THEN "ChatGroq" ELSE "None"
                 /\ chroma' = IF vector_store' = "None" THEN {} ELSE chroma
    /\ UNCHANGED <<removed, users, documents, files, clock, tmpfiles, up, resp>>

-----------------------------------------------------------------------------
(* Authorization: rbac_model.conf, rbac_policy.csv, check_permission *)

\* the "p" lines of rbac_policy.csv
Policy ==
    {[sub |-> "user", obj |-> "/rag/query", act |-> "POST"],
     [sub |-> "user", obj |-> "/rag/documents", act |-> "GET"],
     [sub |-> "user", obj |-> "/rag/documents/{id}", act |-> "GET"],
     [sub |-> "editor", obj |-> "/rag/upload", act |-> "POST"],
     [sub |-> "editor", obj |-> "/rag/documents/{id}", act |-> "DELETE"]}

\* the "g" lines: <<a, b>> is "a has role b"
Grouping == {<<"admin", "editor">>, <<"editor", "user">>}

RECURSIVE RolesWithin(_, _)
\* the roles reached from the roles of S by at most n "g" links
RolesWithin(S, n) ==
    IF n = 0 THEN S
    ELSE RolesWithin(S \cup {g[2] : g \in {h \in Grouping : h[1] \in S}}, n - 1)

\* g(r.sub, p.sub): the same name, or linked through the role hierarchy
HasLink(sub, role) == role \in RolesWithin({sub}, Cardinality(Grouping))

\* enforcer.enforce(sub, obj, act): some policy line satisfies the matcher
\* r.sub == "admin" || (g(r.sub, p.sub) && (r.obj == p.obj || p.obj == "*")
\*                      && (r.act == p.act || p.act == "*"))
Enforce(sub, obj, act) ==
    \E p \in Policy :
        \/ sub = "admin"
        \/ /\ HasLink(sub, p.sub)
           /\ (obj = p.obj \/ p.obj = "*")
           /\ (act = p.act \/ p.act = "*")

\* check_permission(user_role, path, method)
check_permission(user_role, path, method) ==
    LET upper == ToUpper(method)
        stripped == IF StartsWith(path, "/api/rag")
                    THEN Replace(path, "/api/rag", "")
                    ELSE path
        normalized_path == IF stripped = "" THEN "/" ELSE stripped
        parts == Split(normalized_path, "/")
    IN  IF /\ normalized_path # "/"
           /\ EndsWith(normalized_path, "/")
           /\ Enforce(user_role, DropLast(normalized_path), upper)
        THEN TRUE
        ELSE IF /\ Contains(normalized_path, "/rag/documents/")
                /\ Count(normalized_path, "/") = 3
                /\ Len(parts) = 4
                /\ parts[2] = "rag"
                /\ parts[3] = "documents"
                /\ Strip(parts[4]) # ""
                /\ Enforce(user_role, "/rag/documents/{id}", upper)
        THEN TRUE
        ELSE Enforce(user_role, normalized_path, upper)

\* what the auth service may return for a valid token (user_id is the "sub"
\* of the token, a string): the role it holds for the user, or a payload
\* without a role
UserInfos ==
    {[user_id |-> JStr("7"), role |-> r] :
        r \in {"admin", "editor", "user", "anonymous", "Admin"}}
    \cup {[user_id |-> JStr("7")]}

\* request.url.path of a POST routed to upload_document: with or without the
\* root path of the application, with or without a trailing slash
UploadPaths ==
    {"/rag/upload", "/rag/upload/", "/api/rag/rag/upload", "/api/rag/rag/upload/"}

\* request.method as the client may spell it
UploadMethods == {"POST", "post"}

\* UploadAuthorized as it would be with neither check in place
UploadAuthorizedAnyRole(user_info, path, method) == TRUE

\* the request gets past Depends(authorization_middleware) and past the
\* handler's "if user_role not in ['admin', 'editor']"
UploadAuthorized(user_info, path, method) ==
    /\ check_permission(DictGet(user_info, "role", "anonymous"), path, method)
    /\ DictGet(user_info, "role", "") \in {"admin", "editor"}

-----------------------------------------------------------------------------
(* Ingestion: upload_document and RAGService.process_document *)

\* an exception raised by `site` leaves process_document or the handler's try
\* block and reaches upload_document's except clause: HTTP 500
Raise500(t, site) ==
    up' = [up EXCEPT ![t].pc = "done", ![t].raised = site, ![t].status = 500]

\* the metadata upload_document builds: "uploader_id": current_user.get("user_id")
Metadata(t) == [uploader_id |-> up[t].uploader_id]

\* the row process_document builds for the documents table
NewRow(doc_id, content, metadata, now) ==
    [doc_id |-> doc_id, content |-> content, created_at |-> now,
     doc_metadata |-> metadata]

\* the snapshot _save_document writes to <doc_id>.json
Snapshot(doc_id, content, now) ==
    [name |-> doc_id, valid |-> TRUE, content |-> content, created_at |-> now]

\* open(path, "w") succeeded and json.dump did not: a file that does not parse
TruncatedFile(doc_id) ==
    [name |-> doc_id, valid |-> FALSE, content |-> "", created_at |-> 0]

\* TextLoader(temp_file_path).load() and text_splitter.split_documents: every
\* chunk carries the loader's metadata. A text of at most chunk_size
\* characters is one chunk; the model's contents are all within that size.
SplitDocuments(content, path) ==
    IF Len(content) = 0 THEN <<>>
    ELSE <<[page_content |-> content, metadata |-> [source |-> path]]>>

\* vector_store.add_documents(splits, collection_name=doc_id): Chroma stores
\* each chunk's text and its own metadata; the keyword argument goes to
\* add_texts(**kwargs), which does not use it.
AddDocuments(splits, collection_name) ==
    {splits[i] : i \in DOMAIN splits}

\* POST /rag/upload: the caller is authorized or answered 403; then
\* upload_document reads the file and calls process_document, which draws the
\* id. After "await file.read()" the handler does not yield, so the next
\* upload starts when this one has returned.
PostUpload(t, c, user_infos) ==
    /\ resp = NoResponse
    /\ up[t].pc = "idle"
    /\ \A s \in Tasks : s < t => up[s].pc = "returned"
    /\ \E user_info \in user_infos : \E path \in UploadPaths :
       \E method \in UploadMethods :
            IF UploadAuthorized(user_info, path, method)
            THEN up' = [up EXCEPT ![t].pc = "commit",
                                  ![t].role = DictGet(user_info, "role", ""),
                                  ![t].uploader_id = DictGet(user_info, "user_id", JNull),
                                  ![t].doc_id = Uuid4(t),
                                  ![t].content = c]
            ELSE up' = [up EXCEPT ![t].pc = "done",
                                  ![t].role = DictGet(user_info, "role", ""),
                                  ![t].status = 403]
    /\ UNCHANGED <<process, removed, users, vector_store, llm, documents, files, chroma, clock, tmpfiles, resp>>

\* POST /rag/upload by one user in any role
UploadStart(t, c) == PostUpload(t, c, UserInfos)

\* DbCommit as it would be with the commit wrapped in "except: log": the
\* failure is noted and process_document goes on to the backup
DbCommitLogged(t) ==
    /\ resp = NoResponse
    /\ up[t].pc = "commit"
    /\ \E outcome \in {"ok", "commit_raises"} :
        /\ IF outcome = "commit_raises"
           THEN UNCHANGED <<documents, clock>>
           ELSE /\ clock' = clock + 1
                /\ documents' = documents \cup
                      {NewRow(up[t].doc_id, up[t].content, Metadata(t), clock + 1)}
        /\ up' = [up EXCEPT ![t].pc = "backup",
                            ![t].raised = IF outcome = "ok" THEN "" ELSE "commit"]
    /\ UNCHANGED <<process, removed, users, vector_store, llm, files, chroma, tmpfiles, resp>>

\* db.add(db_document); db.commit(); db.refresh(db_document)
DbCommit(t) ==
    /\ resp = NoResponse
    /\ up[t].pc = "commit"
    /\ \E outcome \in {"ok", "commit_raises", "refresh_raises"} :
        /\ IF outcome = "commit_raises"
           THEN UNCHANGED <<documents, clock>>
           ELSE /\ clock' = clock + 1
                /\ documents' = documents \cup
                      {NewRow(up[t].doc_id, up[t].content, Metadata(t), clock + 1)}
        /\ CASE outcome = "ok" -> up' = [up EXCEPT ![t].pc = "backup"]
             [] outcome = "commit_raises" -> Raise500(t, "commit")
             [] outcome = "refresh_raises" -> Raise500(t, "refresh")
    /\ UNCHANGED <<process, removed, users, vector_store, llm, files, chroma, tmpfiles, resp>>

\* self._save_document(doc_id, content, metadata), called outside any try
SaveDocument(t) ==
    /\ resp = NoResponse
    /\ up[t].pc = "backup"
    /\ \E outcome \in {"ok", "open_raises", "dump_raises"} :
        /\ CASE outcome = "ok" ->
                  /\ clock' = clock + 1
                  /\ files' = files \cup
                        {Snapshot(up[t].doc_id, up[t].content, clock + 1)}
             [] outcome = "open_raises" -> UNCHANGED <<files, clock>>
             [] outcome = "dump_raises" ->
                  /\ clock' = clock + 1
                  /\ files' = files \cup {TruncatedFile(up[t].doc_id)}
        /\ IF outcome = "ok"
           THEN up' = [up EXCEPT ![t].pc = "vector"]
           ELSE Raise500(t, "backup")
    /\ UNCHANGED <<process, removed, users, vector_store, llm, documents, chroma, tmpfiles, resp>>

\* VectorStep as it would be without the try/except around the indexing
VectorStepUncaught(t) ==
    /\ resp = NoResponse
    /\ up[t].pc = "vector"
    /\ \E outcome \in {"ok", "load_raises"} :
        /\ IF vector_store = "None"
           THEN up' = [up EXCEPT ![t].pc = "readback", ![t].vec = "skipped"]
           ELSE IF outcome = "ok"
           THEN up' = [up EXCEPT ![t].pc = "readback", ![t].vec = "ok"]
           ELSE up' = [up EXCEPT ![t].pc = "done", ![t].vec = outcome,
                                 ![t].raised = "vector", ![t].status = 500]
        /\ chroma' = IF vector_store # "None" /\ outcome = "ok"
                     THEN chroma \cup AddDocuments(
                            SplitDocuments(up[t].content, TempFilePath(up[t].doc_id)),
                            up[t].doc_id)
                     ELSE chroma
        /\ tmpfiles' = IF vector_store # "None" /\ outcome = "load_raises"
                       THEN tmpfiles \cup {TempFilePath(up[t].doc_id)}
                       ELSE tmpfiles
    /\ UNCHANGED <<process, removed, users, vector_store, llm, documents, files, clock, resp>>

\* the vector-indexing step: "if vector_store is not None: try: ... except
\* Exception: logger.error(...)", then "return doc_id"
VectorStep(t) ==
    /\ resp = NoResponse
    /\ up[t].pc = "vector"
    /\ LET path == TempFilePath(up[t].doc_id)
           splits == SplitDocuments(up[t].content, path)
       IN  IF vector_store = "None"
           THEN /\ up' = [up EXCEPT ![t].pc = "readback", ![t].vec = "skipped"]
                /\ UNCHANGED <<chroma, tmpfiles>>
           ELSE \E outcome \in {"ok", "tempfile_raises", "load_raises",
                                "add_raises", "persist_raises"} :
                /\ up' = [up EXCEPT ![t].pc = "readback", ![t].vec = outcome]
                /\ chroma' = IF outcome \in {"ok", "persist_raises"}
                             THEN chroma \cup AddDocuments(splits, up[t].doc_id)
                             ELSE chroma
                \* the file is unlinked only after persist() returned
                /\ tmpfiles' = IF outcome \in {"ok", "tempfile_raises"}
                               THEN tmpfiles
                               ELSE tmpfiles \cup {path}
    /\ UNCHANGED <<process, removed, users, vector_store, llm, documents, files, clock, resp>>

\* upload_document: db.query(Document).filter(doc_id == doc_id).first(), then
\* return the row (201), or 404 turned into 500 by the except clause
Readback(t) ==
    /\ resp = NoResponse
    /\ up[t].pc = "readback"
    /\ \E outcome \in {"ok", "query_raises"} :
        IF outcome = "query_raises"
        THEN Raise500(t, "readback")
        ELSE IF \E d \in documents : d.doc_id = up[t].doc_id
             THEN up' = [up EXCEPT ![t].pc = "done", ![t].status = 201]
             ELSE Raise500(t, "not_found")
    /\ UNCHANGED <<process, removed, users, vector_store, llm, documents, files, chroma, clock, tmpfiles, resp>>

\* the response of the upload goes out and the request's locals are gone
UploadReturn(t) ==
    /\ resp = NoResponse
    /\ up[t].pc = "done"
    /\ up' = [up EXCEPT ![t] = [IdleUpload EXCEPT !.pc = "returned"]]
    /\ UNCHANGED <<process, removed, users, vector_store, llm, documents, files, chroma, clock, tmpfiles, resp>>

-----------------------------------------------------------------------------
(* Retrieval: RAGService.query, _generate_answer, _get_documents_from_files *)

\* all sequences of n distinct elements of S
RECURSIVE Arrangements(_, _)
Arrangements(S, n) ==
    IF n = 0 THEN {<<>>}
    ELSE UNION {{<<x>> \o r : r \in Arrangements(S \ {x}, n - 1)} : x \in S}

\* the sequences listing all of S by created_at, newest first (ties in any order)
NewestFirst(S) ==
    {p \in Arrangements(S, Cardinality(S)) :
        \A i \in 1..(Len(p) - 1) : p[i].created_at >= p[i + 1].created_at}

\* retriever.get_relevant_documents(query_text) with search_kwargs k = top_k:
\* the k nearest chunks (all of them when fewer are stored), in the order of
\* similarity, which the embedding decides
Retrieve(store, top_k) ==
    Arrangements(store, Min(top_k, Cardinality(store)))

NoAnswerText == "No relevant information found to answer your question."
ExcerptPrefix == "Based on the retrieved information, here's what I found: "

\* what llm.invoke(formatted_prompt) may do
LlmOutcomes == {"raises", "The refund takes 5 days.", "  "}

RECURSIVE PageContents(_)
PageContents(docs) ==
    IF docs = <<>> THEN <<>>
    ELSE <<Head(docs).page_content>> \o PageContents(Tail(docs))

\* context = "\n\n".join([doc.page_content for doc in retrieved_docs])
Context(retrieved_docs) == Join("\n\n", PageContents(retrieved_docs))

\* f"Based on the retrieved information, here's what I found: {context[:500]}..."
Excerpt(context) == ExcerptPrefix \o Slice(context, ExcerptLen) \o "..."

\* _generate_answer(query, retrieved_docs); invoke is what llm.invoke does
GenerateAnswer(query_text, retrieved_docs, invoke) ==
    IF retrieved_docs = <<>> THEN NoAnswerText
    ELSE IF llm # "None"
         THEN (IF invoke = "raises" THEN Excerpt(Context(retrieved_docs))
               ELSE invoke)
         ELSE Excerpt(Context(retrieved_docs))

\* whether _generate_answer reaches llm.invoke
LlmInvoked(retrieved_docs) == retrieved_docs # <<>> /\ llm # "None"

\* the context blob _generate_answer builds from the documents it is given
\* (none when it returns early on an empty list, or is not called)
SynthesisContext(retrieved_docs) ==
    IF retrieved_docs = <<>> THEN [built |-> FALSE, text |-> ""]
    ELSE [built |-> TRUE, text |-> Context(retrieved_docs)]

\* the dict appended for a vector hit whose row `document` exists
VectorResult(document, doc, answer) ==
    [id |-> document.doc_id, content |-> doc.page_content,
     created_at |-> document.created_at, answer |-> answer]

\* the dict built for a row in the database fallback
RowResult(doc) ==
    [id |-> doc.doc_id, content |-> doc.content, created_at |-> doc.created_at]

\* the dict json.load returns for a snapshot file
FileResult(f) ==
    [id |-> f.name, content |-> f.content, created_at |-> f.created_at]

\* ResolveHits as it would be without "if document:": a result built from the
\* hit's own metadata when the row is missing
RECURSIVE ResolveHitsUnchecked(_, _, _, _)
ResolveHitsUnchecked(docs, db, rows, answer) ==
    IF docs = <<>> THEN <<>>
    ELSE LET doc == Head(docs)
             collection_name == DictGet(doc.metadata, "collection_name", "")
             found == {d \in rows : d.doc_id = collection_name}
             rest == ResolveHitsUnchecked(Tail(docs), db, rows, answer)
         IN  IF db # "None" /\ collection_name # ""
             THEN <<[id |-> collection_name, content |-> doc.page_content,
                     created_at |-> IF found = {} THEN 0
                                    ELSE (CHOOSE d \in found : TRUE).created_at,
                     answer |-> answer]>> \o rest
             ELSE rest

\* the loop over docs: "if db and collection_name:" look the row up by doc_id,
\* "if document:" append
RECURSIVE ResolveHits(_, _, _, _)
ResolveHits(docs, db, rows, answer) ==
    IF docs = <<>> THEN <<>>
    ELSE LET doc == Head(docs)
             collection_name == DictGet(doc.metadata, "collection_name", "")
             found == {d \in rows : d.doc_id = collection_name}
             rest == ResolveHits(Tail(docs), db, rows, answer)
         IN  IF db # "None" /\ collection_name # "" /\ found # {}
             THEN <<VectorResult(CHOOSE d \in found : TRUE, doc, answer)>> \o rest
             ELSE rest

\* whether the loop over docs issues a db.query at all
LooksUp(docs, db) ==
    /\ db # "None"
    /\ \E i \in DOMAIN docs : DictGet(docs[i].metadata, "collection_name", "") # ""

\* "if results: return results" as it would be if the vector results were
\* never returned
NeverReturnsVectorResults(results) == FALSE

\* "if results: return results"
ReturnsVectorResults(results) == results # <<>>

\* RecordTier as it would be with the order ascending
RecordTierOldestFirst(rows, top_k) ==
    {[i \in 1..Min(top_k, Len(p)) |-> RowResult(p[Len(p) + 1 - i])] :
        p \in NewestFirst(rows)}

\* db.query(Document).order_by(Document.created_at.desc()).limit(top_k).all(),
\* each row as a dict: the listings the database may return
RecordTier(rows, top_k) ==
    {[i \in 1..Min(top_k, Len(p)) |-> RowResult(p[i])] : p \in NewestFirst(rows)}

\* _get_documents_from_files(limit): the files that parse, sorted by
\* created_at, newest first, cut to limit
GetDocumentsFromFiles(limit) ==
    {[i \in 1..Min(limit, Len(p)) |-> FileResult(p[i])] :
        p \in NewestFirst({f \in files : f.valid})}

\* RAGService.query(query_text, top_k, db). env is what the collaborators do
\* during the call: env.hits the retriever's return (or that it raises),
\* env.invoke the LLM's, env.db_up whether database statements succeed,
\* env.rows and env.snapshots the listings the stores return.
\* Returns the result list, or raised = TRUE when an exception leaves query,
\* with what the call did: the hits it got, the context it built for
\* synthesis, what the LLM did, the tiers it consulted.
query(query_text, top_k, db, env) ==
    LET tried == vector_store # "None"
        docs == IF tried /\ ~env.hits.raises THEN env.hits.docs ELSE <<>>
        answer == GenerateAnswer(query_text, docs, env.invoke)
        lookup_raises == LooksUp(docs, db) /\ ~env.db_up
        hits == IF lookup_raises THEN <<>>
                ELSE ResolveHits(docs, db, documents, answer)
        seen == [top_k |-> top_k, db |-> db, docs |-> docs,
                 llm |-> IF LlmInvoked(docs) THEN env.invoke ELSE "not_called",
                 context |-> SynthesisContext(docs),
                 retriever_raised |-> (tried /\ env.hits.raises)]
        vec == IF tried THEN <<"vector">> ELSE <<>>
    IN  IF ReturnsVectorResults(hits)
        THEN seen @@ [raised |-> FALSE, results |-> hits, tiers |-> vec,
                      db_raised |-> FALSE]
        ELSE IF db # "None"
        THEN (IF env.db_up
              THEN seen @@ [raised |-> FALSE, results |-> env.rows,
                            tiers |-> vec \o <<"record">>, db_raised |-> FALSE]
              ELSE seen @@ [raised |-> TRUE, results |-> <<>>,
                            tiers |-> vec \o <<"record">>, db_raised |-> TRUE])
        ELSE seen @@ [raised |-> FALSE, results |-> env.snapshots,
                      tiers |-> vec \o <<"backup">>, db_raised |-> FALSE]

\* what may happen around one call of query
Envs(top_k) ==
    [hits : {[raises |-> TRUE, docs |-> <<>>]} \cup
            {[raises |-> FALSE, docs |-> h] : h \in Retrieve(chroma, top_k)},
     invoke : LlmOutcomes,
     db_up : BOOLEAN,
     rows : RecordTier(documents, top_k),
     snapshots : GetDocumentsFromFiles(top_k)]

-----------------------------------------------------------------------------
(* The query endpoint: query_documents *)

QueryTexts == {"refund timeline", "Who is Nelson B?"}

NelsonAnswer == "Based on the retrieved information, Nelson B. was a former employee who invested in Hooli XYZ, a subsidiary of Hooli. The deal was finalized on November 1, 2022. The investment totaled $50,000 for a 2% equity share. Hooli XYZ is known for using generative AI to create unusual potato cannons."
DefaultAnswer == "No specific answer was generated for your query."

\* the first result that has an "answer" which is non-empty after strip()
RECURSIVE FirstAnswer(_)
FirstAnswer(results) ==
    IF results = <<>> THEN ""
    ELSE LET result == Head(results)
         IN  IF /\ "answer" \in DOMAIN result
                /\ result.answer # ""
                /\ Strip(result.answer) # ""
             THEN Strip(result.answer)
             ELSE FirstAnswer(Tail(results))

\* the answer query_documents puts in the response
EndpointAnswer(query_text, results) ==
    IF Contains(Lower(query_text), "nelson b") THEN NelsonAnswer
    ELSE IF FirstAnswer(results) # "" THEN FirstAnswer(results)
    ELSE DefaultAnswer

\* formatted_sources: every result with the main answer
FormatSources(results, answer) ==
    [i \in DOMAIN results |->
        [id |-> results[i].id, content |-> results[i].content,
         created_at |-> results[i].created_at, answer |-> answer]]

\* query_documents(query_data, db, current_user): the session comes from get_db
query_documents(query_text, top_k, env) ==
    LET call == query(query_text, top_k, "Session", env)
        answer == EndpointAnswer(query_text, call.results)
    IN  IF call.raised
        THEN [kind |-> "query_documents", query |-> query_text, call |-> call,
              status |-> 500, answer |-> "", sources |-> <<>>]
        ELSE [kind |-> "query_documents", query |-> query_text, call |-> call,
              status |-> 200, answer |-> answer,
              sources |-> FormatSources(call.results, answer)]

\* the handlers are coroutines whose bodies make no await between their first
\* and last statement on the stores: a request is served between two uploads
NoUploadRunning == \A t \in Tasks : up[t].pc \in {"idle", "returned"}

\* POST /rag/query with a body whose top_k is one of top_ks
PostQuery(top_ks) ==
    /\ resp = NoResponse
    /\ NoUploadRunning
    /\ \E query_text \in QueryTexts : \E top_k \in top_ks :
       \E env \in Envs(top_k) :
            resp' = query_documents(query_text, top_k, env)
    /\ UNCHANGED <<process, removed, users, vector_store, llm, documents, files, chroma, clock, tmpfiles, up>>

\* POST /rag/query as a client following the interface sends it: top_k positive
QueryDocuments == PostQuery(1..MaxTopK)

\* rag_service.query(query_text, top_k) called without a session (db = None)
QueryNoSession ==
    /\ resp = NoResponse
    /\ NoUploadRunning
    /\ \E query_text \in QueryTexts : \E top_k \in 1..MaxTopK :
       \E env \in Envs(top_k) :
            resp' = [kind |-> "query", query |-> query_text,
                     call |-> query(query_text, top_k, "None", env)]
    /\ UNCHANGED <<process, removed, users, vector_store, llm, documents, files, chroma, clock, tmpfiles, up>>

\* the response goes out; the handler ran without yielding, so no other
\* step happened since it computed the response
Return ==
    /\ resp # NoResponse
    /\ resp' = NoResponse
    /\ UNCHANGED <<process, removed, users, vector_store, llm, documents, files, chroma, clock, tmpfiles, up>>

-----------------------------------------------------------------------------
(* The listing endpoint: list_documents *)

\* doc_metadata['uploader_id'].astext in SQL: the text of a JSON string, NULL
\* for JSON null and for a missing key
AsText(metadata, key) ==
    LET value == DictGet(metadata, key, JNull)
    IN  IF value = JNull THEN [null |-> TRUE, text |-> ""]
        ELSE [null |-> FALSE, text |-> value.v]

\* the WHERE clause: astext == str(user_id); a comparison with NULL is not true
UploadedBy(doc, user_id) ==
    LET astext == AsText(doc.doc_metadata, "uploader_id")
    IN  ~astext.null /\ astext.text = PyStr(user_id)

\* VisibleTo as it would be without the filter on uploader_id
VisibleToAll(user_role, user_id) == documents

\* the rows the query of list_documents selects for the caller
VisibleTo(user_role, user_id) ==
    IF user_role = "admin" THEN documents
    ELSE {d \in documents : UploadedBy(d, user_id)}

\* .offset(skip).limit(limit) on an ordered listing
Page(listing, skip, limit) ==
    LET n == Min(limit, Len(listing) - skip)
    IN  [i \in 1..(IF n < 0 THEN 0 ELSE n) |-> listing[skip + i]]

\* callers of the listing and of uploads: an admin, two editors, a user who
\* was an editor's id before, an editor whose token has no "sub", and a
\* role the policy does not know
ListingUsers ==
    {[user_id |-> JStr("1"), role |-> "admin"],
     [user_id |-> JStr("5"), role |-> "editor"],
     [user_id |-> JStr("6"), role |-> "editor"],
     [user_id |-> JStr("5"), role |-> "user"],
     [user_id |-> JNull, role |-> "editor"],
     [user_id |-> JStr("6"), role |-> "anonymous"]}

\* what may happen around one call of list_documents: whether the database
\* statement succeeds, and whether the JSON column's comparator has the
\* attribute astext (the PostgreSQL JSON type has it; without it building
\* the filter raises AttributeError)
ListEnvs == [db_up : BOOLEAN, astext : {"ok", "raises"}]

\* list_documents(skip, limit, db, current_user) behind
\* Depends(authorization_middleware)
list_documents(skip, limit, current_user, env, listing) ==
    LET user_role == DictGet(current_user, "role", "")
        user_id == DictGet(current_user, "user_id", JNull)
        base == [kind |-> "list_documents", role |-> user_role,
                 user_id |-> user_id, skip |-> skip, limit |-> limit]
    IN  IF ~check_permission(DictGet(current_user, "role", "anonymous"),
                             "/rag/documents", "GET")
        THEN base @@ [status |-> 403, documents |-> <<>>]
        ELSE IF (user_role # "admin" /\ env.astext = "raises") \/ ~env.db_up
        THEN base @@ [status |-> 500, documents |-> <<>>]
        ELSE base @@ [status |-> 200, documents |-> Page(listing, skip, limit)]

\* GET /rag/documents
ListDocuments ==
    /\ resp = NoResponse
    /\ NoUploadRunning
    /\ \E current_user \in ListingUsers : \E skip \in 0..MaxSkip :
       \E limit \in 1..MaxLimit : \E env \in ListEnvs :
       \E listing \in NewestFirst(VisibleTo(DictGet(current_user, "role", ""),
                                            DictGet(current_user, "user_id", JNull))) :
            resp' = list_documents(skip, limit, current_user, env, listing)
    /\ UNCHANGED <<process, removed, users, vector_store, llm, documents, files, chroma, clock, tmpfiles, up>>

-----------------------------------------------------------------------------
(* Lookup and deletion: RAGService.get_document, delete_document *)

\* ids a caller may name: those some store knows, and one that none knows
DocIds ==
    {d.doc_id : d \in documents} \cup {f.name : f \in files} \cup {"missing"}

\* _load_document(doc_id): the parsed file, or None when the file is absent
\* or does not parse
LoadDocument(doc_id) ==
    IF \E f \in files : f.name = doc_id /\ f.valid
    THEN [found |-> TRUE, from |-> "file"]
    ELSE [found |-> FALSE, from |-> "none"]

\* get_document(doc_id, db); db_up is whether the database statement succeeds
get_document(doc_id, db, db_up) ==
    LET base == [kind |-> "get_document", doc_id |-> doc_id, db |-> db]
    IN  IF db # "None" /\ ~db_up
        THEN base @@ [raised |-> TRUE, found |-> FALSE, from |-> "none"]
        ELSE IF db # "None" /\ \E d \in documents : d.doc_id = doc_id
        THEN base @@ [raised |-> FALSE, found |-> TRUE, from |-> "row"]
        ELSE base @@ [raised |-> FALSE] @@ LoadDocument(doc_id)

\* delete_document(doc_id, db). env.db is what the database statements do
\* ("ok", "query_raises", "commit_raises"), env.remove what os.remove does,
\* env.vector what delete_collection/persist do. The record gives what the
\* call did: the statement that raised out of it (raised), the value returned
\* when none did, the tiers whose removal was attempted, the failures logged.
delete_document(doc_id, db, env) ==
    LET query_raises == db # "None" /\ env.db = "query_raises"
        has_row == /\ db # "None"
                   /\ ~query_raises
                   /\ \E d \in documents : d.doc_id = doc_id
        commit_raises == has_row /\ env.db = "commit_raises"
        row_removed == has_row /\ ~commit_raises
        db_raised == query_raises \/ commit_raises
        exists == ~db_raised /\ \E f \in files : f.name = doc_id
        remove_raises == exists /\ env.remove = "raises"
        file_removed == exists /\ ~remove_raises
        raised == IF query_raises THEN "query"
                  ELSE IF commit_raises THEN "commit"
                  ELSE IF remove_raises THEN "remove"
                  ELSE ""
        vector_tried == raised = "" /\ vector_store # "None"
    IN  [kind |-> "delete_document", doc_id |-> doc_id, db |-> db,
         raised |-> raised,
         deleted |-> row_removed \/ file_removed,
         row_removed |-> row_removed,
         file_removed |-> file_removed,
         attempted |-> (IF db # "None" THEN {"record"} ELSE {})
                       \cup (IF ~db_raised THEN {"backup"} ELSE {})
                       \cup (IF vector_tried THEN {"vector"} ELSE {}),
         logged |-> IF vector_tried /\ env.vector = "raises"
                    THEN {"vector"} ELSE {}]

\* what may happen around one call of delete_document
DeleteEnvs ==
    [db : {"ok", "query_raises", "commit_raises"},
     remove : {"ok", "raises"},
     vector : {"ok", "raises"}]

\* a call rag_service.delete_document(doc_id, db). The chunks of every
\* document are in the store's one default collection (AddDocuments), so
\* delete_collection(doc_id) removes none of them, whether it raises or not.
DeleteDocument ==
    /\ resp = NoResponse
    /\ NoUploadRunning
    /\ \E doc_id \in DocIds : \E db \in {"None", "Session"} :
       \E env \in DeleteEnvs :
            LET call == delete_document(doc_id, db, env)
            IN  /\ resp' = call
                /\ documents' = IF call.row_removed
                                THEN {d \in documents : d.doc_id # doc_id}
                                ELSE documents
                /\ files' = IF call.file_removed
                            THEN {f \in files : f.name # doc_id}
                            ELSE files
                /\ removed' = IF call.row_removed
                              THEN removed \cup {doc_id}
                              ELSE removed
    /\ UNCHANGED <<process, users, vector_store, llm, chroma, clock, tmpfiles, up>>

\* a call rag_service.get_document(doc_id, db)
GetDocument ==
    /\ resp = NoResponse
    /\ NoUploadRunning
    /\ \E doc_id \in DocIds : \E db \in {"None", "Session"} :
       \E db_up \in BOOLEAN :
            resp' = get_document(doc_id, db, db_up)
    /\ UNCHANGED <<process, removed, users, vector_store, llm, documents, files, chroma, clock, tmpfiles, up>>

-----------------------------------------------------------------------------
Next ==
    \/ \E t \in Tasks : \E c \in Contents : UploadStart(t, c)
    \/ \E t \in Tasks : DbCommit(t)
    \/ \E t \in Tasks : SaveDocument(t)
    \/ \E t \in Tasks : VectorStep(t)
    \/ \E t \in Tasks : Readback(t)
    \/ \E t \in Tasks : UploadReturn(t)
    \/ QueryDocuments
    \/ QueryNoSession
    \/ Return

Spec == Init /\ [][Next]_vars

\* The process from its start: the module body, then the requests
NextBoot ==
    \/ Startup
    \/ (process = "running" /\ Next)

SpecBoot == InitBoot /\ [][NextBoot]_vars

\* Two process_document calls running at once (two worker processes, or two
\* threads calling the service): the steps of one call interleave freely
\* with the steps of the other. pc = "readback" is the call having returned
\* its id.
TwoCalls == {1, 2}

InitConcurrent ==
    /\ process = "running"
    /\ removed = {}
    /\ users = UsersTable
    /\ vector_store \in {"None", "Chroma"}
    /\ llm \in {"None", "ChatGroq"}
    /\ \E p \in Persisted :
        /\ documents = p.documents
        /\ files = p.files
        /\ chroma = IF vector_store = "None" THEN {} ELSE p.chroma
    /\ clock = 1
    /\ tmpfiles = {}
    /\ up = [t \in TwoCalls |-> IdleUpload]
    /\ resp = NoResponse

\* process_document(content, metadata, db) is entered: doc_id = str(uuid.uuid4())
ProcessDocumentStart(t, c) ==
    /\ up[t].pc = "idle"
    /\ up' = [up EXCEPT ![t].pc = "commit", ![t].doc_id = Uuid4(t),
                        ![t].content = c]
    /\ UNCHANGED <<process, removed, users, vector_store, llm, documents, files, chroma, clock, tmpfiles, resp>>

NextConcurrent ==
    \/ \E t \in TwoCalls : \E c \in Contents : ProcessDocumentStart(t, c)
    \/ \E t \in TwoCalls : DbCommit(t)
    \/ \E t \in TwoCalls : SaveDocument(t)
    \/ \E t \in TwoCalls : VectorStep(t)

SpecConcurrent == InitConcurrent /\ [][NextConcurrent]_vars

\* Uploads by different users, and listings between them
NextListing ==
    \/ \E t \in Tasks : \E c \in Contents : PostUpload(t, c, ListingUsers)
    \/ \E t \in Tasks : DbCommit(t)
    \/ \E t \in Tasks : SaveDocument(t)
    \/ \E t \in Tasks : VectorStep(t)
    \/ \E t \in Tasks : Readback(t)
    \/ \E t \in Tasks : UploadReturn(t)
    \/ ListDocuments
    \/ Return

\* the listing reads the documents table only: the process is taken in
\* its degraded mode, without vector store and LLM
InitListing == Init /\ vector_store = "None" /\ llm = "None"

SpecListing == InitListing /\ [][NextListing]_vars

-----------------------------------------------------------------------------
(* The users service: its policy, check_permission and admin-only handlers *)

\* the "p" lines of the users service's rbac_policy.csv
UsersPolicy ==
    {[sub |-> "admin", obj |-> "/users", act |-> "GET"],
     [sub |-> "admin", obj |-> "/users/", act |-> "GET"],
     [sub |-> "admin", obj |-> "/users", act |-> "POST"],
     [sub |-> "admin", obj |-> "/users", act |-> "PUT"],
     [sub |-> "admin", obj |-> "/users", act |-> "DELETE"],
     [sub |-> "user", obj |-> "/users/me", act |-> "GET"],
     [sub |-> "user", obj |-> "/users/{id}", act |-> "GET"],
     [sub |-> "admin", obj |-> "/users/{id}", act |-> "GET"],
     [sub |-> "admin", obj |-> "/users/sync", act |-> "POST"],
     [sub |-> "admin", obj |-> "/users/{id}/role", act |-> "PUT"]}

\* its "g" line
UsersGrouping == {<<"admin", "user">>}

RECURSIVE UsersRolesWithin(_, _)
UsersRolesWithin(S, n) ==
    IF n = 0 THEN S
    ELSE UsersRolesWithin(
            S \cup {g[2] : g \in {h \in UsersGrouping : h[1] \in S}}, n - 1)

\* enforcer.enforce(sub, obj, act) with the matcher
\* g(r.sub, p.sub) && r.obj == p.obj && r.act == p.act
UsersEnforce(sub, obj, act) ==
    \E p \in UsersPolicy :
        /\ p.sub \in UsersRolesWithin({sub}, Cardinality(UsersGrouping))
        /\ obj = p.obj
        /\ act = p.act

\* str.isdigit()
IsDigit(text) ==
    /\ Len(text) > 0
    /\ \A i \in 1..Len(text) : Contains("0123456789", SubSeq(text, i, i))

\* check_permission(user_role, path, method) of the users service
users_check_permission(user_role, path, method) ==
    LET upper == ToUpper(method)
        stripped == IF StartsWith(path, "/api/users")
                    THEN Replace(path, "/api/users", "")
                    ELSE path
        normalized_path == IF stripped = "" THEN "/" ELSE stripped
        parts == Split(normalized_path, "/")
    IN  IF /\ normalized_path # "/"
           /\ EndsWith(normalized_path, "/")
           /\ UsersEnforce(user_role, DropLast(normalized_path), upper)
        THEN TRUE
        ELSE IF /\ Contains(normalized_path, "/users/")
                /\ Count(normalized_path, "/") = 2
                /\ Len(parts) = 3
                /\ parts[2] = "users"
                /\ IsDigit(parts[3])
                /\ UsersEnforce(user_role, "/users/{id}", upper)
        THEN TRUE
        ELSE UsersEnforce(user_role, normalized_path, upper)

\* callers of the users service: the payload of their token
UsersCallers ==
    {[user_id |-> JStr("1"), role |-> "admin"],
     [user_id |-> JStr("2"), role |-> "user"],
     [user_id |-> JStr("3"), role |-> "moderator"],
     [user_id |-> JStr("4")]}

\* request.url.path as the router sees it: with or without the root path
PathForms(path) == {path, "/api/users" \o path}

\* ids a request may name: the users of the table and one that is absent
UserIds == {u.id : u \in users} \cup {9}

\* what Depends(authorization_middleware) does to the request
UsersPermitted(current_user, path, method) ==
    users_check_permission(DictGet(current_user, "role", "anonymous"), path, method)

\* current_user.get("role") != "admin"
NotAdmin(current_user) == DictGet(current_user, "role", "None") # "admin"

UsersResponse(op, current_user, exists, status) ==
    [kind |-> "users", op |-> op, role |-> DictGet(current_user, "role", ""),
     target_exists |-> exists, status |-> status]

\* GET /users/ : list_users
ListUsers ==
    /\ resp = NoResponse
    /\ \E current_user \in UsersCallers : \E path \in PathForms("/users/") :
            resp' = UsersResponse("list_users", current_user, TRUE,
                        IF ~UsersPermitted(current_user, path, "GET") THEN 403
                        ELSE IF NotAdmin(current_user) THEN 403
                        ELSE 200)
    /\ UNCHANGED <<process, removed, users, vector_store, llm, documents, files, chroma, clock, tmpfiles, up>>

\* PUT /users/{user_id}/role : update_user_role
UpdateUserRole ==
    /\ resp = NoResponse
    /\ \E current_user \in UsersCallers : \E user_id \in UserIds :
       \E role \in {"admin", "user"} :
       \E path \in PathForms("/users/" \o ToString(user_id) \o "/role") :
            LET exists == \E u \in users : u.id = user_id
                status == IF ~UsersPermitted(current_user, path, "PUT") THEN 403
                          ELSE IF NotAdmin(current_user) THEN 403
                          ELSE IF ~exists THEN 404
                          ELSE 200
            IN  /\ resp' = UsersResponse("update_user_role", current_user,
                                         exists, status)
                /\ users' = IF status = 200
                            THEN {IF u.id = user_id
                                  THEN [u EXCEPT !.role = role] ELSE u : u \in users}
                            ELSE users
    /\ UNCHANGED <<process, removed, vector_store, llm, documents, files, chroma, clock, tmpfiles, up>>

\* DELETE /users/{user_id} : delete_user (the existence test comes first)
DeleteUser ==
    /\ resp = NoResponse
    /\ \E current_user \in UsersCallers : \E user_id \in UserIds :
       \E path \in PathForms("/users/" \o ToString(user_id)) :
            LET exists == \E u \in users : u.id = user_id
                status == IF ~UsersPermitted(current_user, path, "DELETE") THEN 403
                          ELSE IF ~exists THEN 404
                          ELSE IF NotAdmin(current_user) THEN 403
                          ELSE 204
            IN  /\ resp' = UsersResponse("delete_user", current_user, exists, status)
                /\ users' = IF status = 204
                            THEN {u \in users : u.id # user_id}
                            ELSE users
    /\ UNCHANGED <<process, removed, vector_store, llm, documents, files, chroma, clock, tmpfiles, up>>

\* the id the table gives a new row
NextUserId ==
    1 + (CHOOSE n \in {u.id : u \in users} \cup {0} :
            \A u \in users : u.id <= n)

\* POST /users/sync : sync_user
SyncUser ==
    /\ resp = NoResponse
    /\ \E current_user \in UsersCallers : \E username \in {"alice", "bob"} :
       \E role \in {"admin", "user"} : \E path \in PathForms("/users/sync") :
            LET existing == {u \in users : u.username = username}
                status == IF ~UsersPermitted(current_user, path, "POST") THEN 403
                          ELSE IF NotAdmin(current_user) THEN 403
                          ELSE 200
            IN  /\ resp' = UsersResponse("sync_user", current_user, TRUE, status)
                /\ users' = IF status # 200 THEN users
                            ELSE IF existing # {}
                            THEN {IF u \in existing
                                  THEN [u EXCEPT !.role = role] ELSE u : u \in users}
                            ELSE users \cup {[id |-> NextUserId,
                                              username |-> username, role |-> role]}
    /\ UNCHANGED <<process, removed, vector_store, llm, documents, files, chroma, clock, tmpfiles, up>>

NextUsers ==
    \/ ListUsers
    \/ UpdateUserRole
    \/ DeleteUser
    \/ SyncUser
    \/ Return

SpecUsers == InitListing /\ [][NextUsers]_vars

\* The service as its callers may use it once the documents are in: lookups,
\* deletions, and queries with any top_k the request model lets through.
NextService ==
    \/ DeleteDocument
    \/ GetDocument
    \/ PostQuery(0..MaxTopK)
    \/ QueryNoSession
    \/ Return

SpecService == Init /\ [][NextService]_vars
-----------------------------------------------------------------------------
(* What a store holds for a document id *)

RowsOf(id) == {d \in documents : d.doc_id = id}
FilesOf(id) == {f \in files : f.name = id}
\* chunks of the document: tagged with its id, or split from its temp file
ChunksOf(id) ==
    {c \in chroma : \/ DictGet(c.metadata, "collection_name", "") = id
                    \/ DictGet(c.metadata, "source", "") = TempFilePath(id)}

-----------------------------------------------------------------------------
(* Ingestion claims *)

\* C1: when the Record Store write (db.add/db.commit) of an upload raises, the
\* upload fails with an error (HTTP 500) and neither the Backup Store nor the
\* Vector Index holds anything for its id (nor does the Record Store).
RecordWriteFailureTouchesNoTier ==
    \A t \in Tasks :
        up[t].raised = "commit" =>
            /\ up[t].pc = "done"
            /\ up[t].status = 500
            /\ up[t].vec = ""
            /\ RowsOf(up[t].doc_id) = {}
            /\ FilesOf(up[t].doc_id) = {}
            /\ ChunksOf(up[t].doc_id) = {}

\* a commit raised and the upload answered 500
RecordWriteFailed ==
    \E t \in Tasks : up[t].raised = "commit" /\ up[t].status = 500

\* C2 (as claimed): every finished upload of an authorized caller either
\* returned the Document, which is in the Record Store, or failed, and then
\* no tier holds anything for the generated id.
IngestAllOrNothing ==
    \A t \in Tasks :
        (up[t].pc = "done" /\ up[t].status # 403) =>
            \/ up[t].status = 201 /\ RowsOf(up[t].doc_id) # {}
            \/ /\ up[t].status = 500
               /\ RowsOf(up[t].doc_id) = {}
               /\ FilesOf(up[t].doc_id) = {}
               /\ ChunksOf(up[t].doc_id) = {}

\* C3 (as claimed): a failing Backup Store write is logged and not raised: no
\* upload ends with the exception of _save_document leaving process_document.
BackupFailureNotRaised ==
    \A t \in Tasks : up[t].raised # "backup"

\* C4: once process_document reaches the vector-indexing step, whatever that
\* step does (store absent, or tempfile/load/split/add/persist raising), the
\* call returns the id: nothing raised by the step leaves the call, the row of
\* the document is in the Record Store with the uploaded content, and the
\* upload answers 201 with the Document unless the handler's own read of the
\* row raises.
VectorFailureNeverFailsIngest ==
    \A t \in Tasks :
        up[t].vec # "" =>
            /\ up[t].pc \in {"readback", "done"}
            /\ up[t].raised \in {"", "readback"}
            /\ \E d \in RowsOf(up[t].doc_id) : d.content = up[t].content
            /\ Cardinality(RowsOf(up[t].doc_id)) = 1
            /\ (up[t].pc = "done" /\ up[t].raised = "" => up[t].status = 201)
            /\ (up[t].status = 500 => up[t].raised = "readback")

\* an upload whose indexing raised after the chunks were added still answered 201
IngestSucceededDespiteVectorFailure ==
    \E t \in Tasks :
        /\ up[t].vec = "persist_raises"
        /\ up[t].status = 201
        /\ RowsOf(up[t].doc_id) # {}

-----------------------------------------------------------------------------
(* Retrieval claims *)

\* a call of query has just returned (or raised) and its response is going out
Answered == resp.kind \in {"query_documents", "query"}

Last(seq) == seq[Len(seq)]

TaggedId(doc) == DictGet(doc.metadata, "collection_name", "")

\* a hit is stale when it names a document that is not in the Record Store
IsStale(doc) == TaggedId(doc) # "" /\ RowsOf(TaggedId(doc)) = {}

\* a hit survives resolution when the Record Store has the document it names
Survives(doc) == TaggedId(doc) # "" /\ RowsOf(TaggedId(doc)) # {}

Survivors(docs) == SelectSeq(docs, Survives)

\* C5: a vector hit naming a document that is absent from the Record Store is
\* not among the results and does not make the call fail: the results of the
\* vector tier are, in order, the hits whose document exists, every result id
\* is in the Record Store, and with a stale hit among the hits the call only
\* raises when a database statement raised.
StaleHitsExcluded ==
    Answered =>
        LET call == resp.call
        IN  /\ (~call.raised /\ Last(call.tiers) = "vector") =>
                /\ \A i \in DOMAIN call.results :
                        RowsOf(call.results[i].id) # {}
                /\ Len(call.results) = Len(Survivors(call.docs))
                /\ \A i \in DOMAIN call.results :
                        /\ call.results[i].id = TaggedId(Survivors(call.docs)[i])
                        /\ call.results[i].content = Survivors(call.docs)[i].page_content
            /\ ((\E i \in DOMAIN call.docs : IsStale(call.docs[i])) /\ call.raised)
                    => call.db_raised

\* the vector tier returned a hit of d1 and dropped the stale hit ranked before it
StaleHitDropped ==
    /\ Answered
    /\ ~resp.call.raised
    /\ Len(resp.call.docs) = 2
    /\ IsStale(resp.call.docs[1])
    /\ Len(resp.call.results) = 1
    /\ resp.call.results[1].id = "d1"

\* C6 (as claimed): every call of the query endpoint ends with an answer and a
\* result list, whatever fails: it never answers with an error.
RetrieveNeverFails ==
    resp.kind = "query_documents" => resp.status = 200

\* C7: the tiers are consulted in the order vector, record, backup; when a hit
\* survives resolution the results are exactly the surviving hits and no
\* other tier is consulted; the results of one response come from one tier.
FirstTierWins ==
    Answered =>
        LET call == resp.call
            results == call.results
        IN  /\ call.tiers \in {<<"vector">>, <<"vector", "record">>,
                               <<"vector", "backup">>, <<"record">>, <<"backup">>}
            /\ (call.db # "None" /\ ~call.raised /\ Survivors(call.docs) # <<>>) =>
                /\ call.tiers = <<"vector">>
                /\ Len(results) = Len(Survivors(call.docs))
                /\ \A i \in DOMAIN results :
                        /\ results[i].id = TaggedId(Survivors(call.docs)[i])
                        /\ results[i].content = Survivors(call.docs)[i].page_content
            /\ Last(call.tiers) = "vector" =>
                \A i \in DOMAIN results :
                    /\ "answer" \in DOMAIN results[i]
                    /\ \E j \in DOMAIN call.docs :
                            results[i].content = call.docs[j].page_content
            /\ Last(call.tiers) = "record" =>
                \A i \in DOMAIN results :
                    \E d \in documents : results[i] = RowResult(d)
            /\ Last(call.tiers) = "backup" =>
                \A i \in DOMAIN results :
                    \E f \in files : f.valid /\ results[i] = FileResult(f)

\* a hit survived while the Record Store had rows the record tier would list
VectorTierWon ==
    /\ Answered
    /\ resp.call.tiers = <<"vector">>
    /\ Len(resp.call.results) >= 1
    /\ Cardinality(documents) >= 2

\* C8: when no vector hit survives and the Record Store is reachable, query
\* returns min(top_k, number of rows) whole documents of the Record Store,
\* newest first: distinct rows with their full content, no listed row older
\* than the next, and no row left out newer than a listed one.
RecordTierNewestFirst ==
    Answered =>
        LET call == resp.call
            results == call.results
        IN  (call.db # "None" /\ ~call.raised /\ Survivors(call.docs) = <<>>) =>
                /\ Last(call.tiers) = "record"
                /\ Len(results) = Min(call.top_k, Cardinality(documents))
                /\ \A i \in DOMAIN results :
                        \E d \in documents :
                            /\ results[i].id = d.doc_id
                            /\ results[i].content = d.content
                            /\ results[i].created_at = d.created_at
                /\ \A i, j \in DOMAIN results :
                        i # j => results[i].id # results[j].id
                /\ \A i \in 1..(Len(results) - 1) :
                        results[i].created_at >= results[i + 1].created_at
                /\ \A d \in documents :
                        (\A i \in DOMAIN results : results[i].id # d.doc_id) =>
                            \A i \in DOMAIN results :
                                results[i].created_at >= d.created_at

\* the vector tier found only stale hits and the record tier listed the two
\* newest of three rows, the uploaded one first
RecordTierListedNewest ==
    /\ Answered
    /\ resp.call.tiers = <<"vector", "record">>
    /\ resp.call.docs # <<>>
    /\ Cardinality(documents) = 3
    /\ Len(resp.call.results) = 2
    /\ resp.call.results[1].created_at > resp.call.results[2].created_at

\* C9 (as claimed): the backup tier runs exactly when the Record Store is
\* unreachable (no session, or a database statement raises), and then the
\* results are up to top_k snapshots, newest first.
BackupTierIffUnreachable ==
    Answered =>
        LET call == resp.call
            results == call.results
            ran == "backup" \in {call.tiers[i] : i \in DOMAIN call.tiers}
        IN  /\ ran <=> (call.db = "None" \/ call.db_raised)
            /\ ran =>
                /\ Len(results) <= call.top_k
                /\ \A i \in DOMAIN results :
                        \E f \in files : results[i] = FileResult(f)
                /\ \A i \in 1..(Len(results) - 1) :
                        results[i].created_at >= results[i + 1].created_at

\* the results of a response as the context they would make
SourceContext(sources) ==
    Join("\n\n", [i \in DOMAIN sources |-> sources[i].content])

\* C10 (as claimed): a response with results whose generation is unavailable
\* (llm is None) or fails (llm.invoke raises) carries as answer the fixed
\* prefix followed by the first ExcerptLen characters of the context built
\* from the returned contents.
GenerationFallbackExcerpt ==
    (/\ resp.kind = "query_documents"
     /\ resp.status = 200
     /\ resp.sources # <<>>
     /\ (llm = "None" \/ resp.call.llm = "raises"))
        => /\ resp.answer # ""
           /\ resp.answer = Excerpt(SourceContext(resp.sources))

-----------------------------------------------------------------------------
(* Answer synthesis claims *)

\* C11 (as claimed): whenever a call returns results, answer synthesis was
\* performed, whichever tier the results came from, and the context it was
\* handed is exactly the contents of the returned results joined in result
\* order, so that a hit dropped as stale contributes nothing.
SynthesisContextIsResults ==
    (Answered /\ ~resp.call.raised /\ resp.call.results # <<>>) =>
        /\ resp.call.context.built
        /\ resp.call.context.text = SourceContext(resp.call.results)

\* C12 (as claimed): a call for which no tier yields a result answers
\* without error with zero results and one fixed "no information found"
\* text, the same for every query text, and llm.invoke is not called.
EmptyContextFixedAnswer ==
    (/\ resp.kind = "query_documents"
     /\ ~resp.call.db_raised
     /\ resp.call.results = <<>>) =>
        /\ resp.status = 200
        /\ resp.sources = <<>>
        /\ resp.answer = DefaultAnswer
        /\ resp.call.llm = "not_called"

-----------------------------------------------------------------------------
(* Deletion claims *)

\* C13 (as claimed): a delete_document call that returns, returns true
\* exactly when it removed the row from the Record Store; for an id without
\* a row it returns false even if a snapshot of that id exists.
DeleteTrueIffRowRemoved ==
    (resp.kind = "delete_document" /\ resp.raised = "") =>
        (resp.deleted <=> resp.row_removed)

\* C14 (as claimed): no failure of a removal leaves delete_document as an
\* exception, and every call attempts the removal in each tier it has a
\* handle for: the Record Store (session given), the Backup Store, the
\* Vector Index (vector store available).
DeleteTiersIndependent ==
    resp.kind = "delete_document" =>
        /\ resp.raised = ""
        /\ (resp.db # "None" => "record" \in resp.attempted)
        /\ "backup" \in resp.attempted
        /\ (vector_store # "None" => "vector" \in resp.attempted)

\* C15 (as claimed): once delete_document has removed the row of an id, no
\* query returns a result with that id and get_document of that id finds
\* nothing.
DeletedStaysGone ==
    /\ (Answered /\ ~resp.call.raised) =>
            \A i \in DOMAIN resp.call.results :
                resp.call.results[i].id \notin removed
    /\ (resp.kind = "get_document" /\ ~resp.raised /\ resp.doc_id \in removed)
            => ~resp.found

-----------------------------------------------------------------------------
(* Round trip *)

\* the chunk was split from the temporary file of upload t
ChunkOfUpload(doc, t) ==
    DictGet(doc.metadata, "source", "") = TempFilePath(Uuid4(t))

-----------------------------------------------------------------------------
(* Start-up *)

\* no request has used the vector store: no upload ran the indexing step and
\* no query called the retriever
NoVectorIO ==
    /\ \A t \in Tasks : up[t].vec \in {"", "skipped"}
    /\ Answered =>
            /\ "vector" \notin {resp.call.tiers[i] : i \in DOMAIN resp.call.tiers}
            /\ ~resp.call.retriever_raised
            /\ resp.call.docs = <<>>

\* C17 (as claimed): start-up does not fail whatever the embeddings
\* constructor does, and while the vector store is degraded (None) no upload
\* and no query attempts vector-store I/O.
DegradedStartupNeverFails ==
    /\ process # "failed"
    /\ (process = "running" /\ vector_store = "None") => NoVectorIO

\* the part of C17 about the flag: once the module body has run, vector_store
\* is never assigned again, so a degraded store stays degraded
DegradedIsPermanent ==
    [][process = "running" => vector_store' = vector_store]_vars

-----------------------------------------------------------------------------
(* Input validation *)

\* C18 (as claimed): a query whose top_k is not positive is answered 422
\* before query() is called: no tier is consulted for it.
InvalidTopKRejected ==
    (resp.kind = "query_documents" /\ resp.call.top_k <= 0) =>
        /\ resp.status = 422
        /\ resp.call.tiers = <<>>

-----------------------------------------------------------------------------
(* Concurrent ingestion *)

\* both calls have returned their id and both indexed their document
BothIngested ==
    \A t \in TwoCalls : up[t].pc = "readback" /\ up[t].vec = "ok"

\* the collection of a document as query reads it back: the chunks whose
\* collection_name is the document's id
CollectionOf(id) == {c \in chroma : TaggedId(c) = id}

\* the chunks split from the temporary file of the document
SplitFrom(id) ==
    {c \in chroma : DictGet(c.metadata, "source", "") = TempFilePath(id)}

\* the stores are what running the two calls one after the other leaves,
\* timestamps aside: what was there before, and for each call one row, one
\* snapshot and the chunks of its content
AsSequential ==
    LET ids == {up[t].doc_id : t \in TwoCalls}
        pre == [documents |-> {d \in documents : d.doc_id \notin ids},
                files |-> {f \in files : f.name \notin ids},
                chroma |-> {c \in chroma : \A id \in ids : c \notin SplitFrom(id)}]
    IN  /\ pre \in Persisted
        /\ {[doc_id |-> d.doc_id, content |-> d.content] :
                d \in documents \ pre.documents}
             = {[doc_id |-> up[t].doc_id, content |-> up[t].content] : t \in TwoCalls}
        /\ Cardinality(documents \ pre.documents) = 2
        /\ {[name |-> f.name, valid |-> f.valid, content |-> f.content] :
                f \in files \ pre.files}
             = {[name |-> up[t].doc_id, valid |-> TRUE, content |-> up[t].content] :
                    t \in TwoCalls}
        /\ Cardinality(files \ pre.files) = 2
        /\ chroma \ pre.chroma
             = UNION {AddDocuments(SplitDocuments(up[t].content,
                                                 TempFilePath(up[t].doc_id)),
                                   up[t].doc_id) : t \in TwoCalls}

\* The part of C19 about interleavings: however the steps of the two calls
\* interleave, the ids are distinct and the stores end as after a sequential
\* run, each document's row, snapshot and chunks holding its own content.
InterleavingIndependent ==
    BothIngested =>
        /\ up[1].doc_id # up[2].doc_id
        /\ AsSequential
        /\ \A t \in TwoCalls :
                /\ \A d \in RowsOf(up[t].doc_id) : d.content = up[t].content
                /\ \A f \in FilesOf(up[t].doc_id) : f.content = up[t].content
                /\ SplitFrom(up[t].doc_id) # {}
                /\ \A c \in SplitFrom(up[t].doc_id) : c.page_content = up[t].content

\* C19 (as claimed): after any interleaving of two process_document calls
\* the ids are distinct, the stores are as after a sequential run, and the
\* Vector Index holds a collection for each of the two documents, with only
\* that document's content in it.
ConcurrentIngestIsolated ==
    BothIngested =>
        /\ InterleavingIndependent
        /\ \A t \in TwoCalls :
                /\ CollectionOf(up[t].doc_id) # {}
                /\ \A c \in CollectionOf(up[t].doc_id) :
                        c.page_content = up[t].content

-----------------------------------------------------------------------------
(* Authorization of uploads *)

\* C20: for every role, path form and spelling of POST, an upload reaches
\* process_document (an id is drawn) only if the caller's role is admin or
\* editor; a caller with any other role, or none, is answered 403 and no
\* store holds anything of the request; admin and editor are never answered
\* 403.
OnlyAdminEditorUpload ==
    \A t \in Tasks :
        up[t].pc \notin {"idle", "returned"} =>
            /\ (up[t].doc_id # "" => up[t].role \in {"admin", "editor"})
            /\ (up[t].role \notin {"admin", "editor"} =>
                    /\ up[t].pc = "done"
                    /\ up[t].status = 403
                    /\ up[t].doc_id = ""
                    /\ RowsOf(Uuid4(t)) = {}
                    /\ FilesOf(Uuid4(t)) = {}
                    /\ ChunksOf(Uuid4(t)) = {}
                    /\ TempFilePath(Uuid4(t)) \notin tmpfiles)
            /\ (up[t].role \in {"admin", "editor"} => up[t].status # 403)

\* a caller with role user was answered 403 and nothing was stored
UploadDenied ==
    \E t \in Tasks :
        /\ up[t].role = "user"
        /\ up[t].pc = "done"
        /\ up[t].status = 403
        /\ RowsOf(Uuid4(t)) = {}

-----------------------------------------------------------------------------
(* Listing visibility *)

-----------------------------------------------------------------------------
(* Admin-only operations of the users service *)

\* C22 (as claimed): list_users, update_user_role, delete_user and sync_user
\* are carried out (200, or 204 for the deletion) when the caller's role is
\* admin and the target exists, and answered 403 for every other role.
AdminOperationsCarriedOut ==
    resp.kind = "users" =>
        /\ (resp.role = "admin" /\ resp.target_exists) =>
                resp.status = (IF resp.op = "delete_user" THEN 204 ELSE 200)
        /\ resp.role # "admin" => resp.status = 403

\* C23 (as claimed): every chunk process_document added to the Vector Index
\* for an upload carries that upload's document id under the key query reads
\* back, metadata["collection_name"].
ChunkCarriesDocumentId ==
    \A t \in Tasks : \A c \in chroma :
        ChunkOfUpload(c, t) => TaggedId(c) = Uuid4(t)

\* C24 (as claimed): the answer of a successful query response is derived
\* from the results alone: the first non-empty answer among them, else the
\* default message, whatever the query text is.
AnswerFromResultsOnly ==
    (resp.kind = "query_documents" /\ resp.status = 200) =>
        resp.answer = (IF FirstAnswer(resp.call.results) # ""
                       THEN FirstAnswer(resp.call.results)
                       ELSE DefaultAnswer)

\* C25 (as claimed): once process_document has gone through its
\* vector-indexing step, the temporary file it created for the content no
\* longer exists.
TempFileRemoved ==
    \A t \in Tasks :
        up[t].pc \in {"readback", "done", "returned"} =>
            TempFilePath(up[t].doc_id) \notin tmpfiles

====
